---- MODULE Spec2Model ----
(***************************************************************************)
(* Workspace discovery of the nao backend: getUserRules, getRepositories   *)
(* and getConnections read the project folder named by                     *)
(* env.NAO_DEFAULT_PROJECT_PATH.  The model keeps the part of the          *)
(* filesystem under the project folder that the three functions look at,   *)
(* an environment that changes it, and the three functions.                *)
(*                                                                         *)
(* Strings the code takes apart (directory names under databases/) are     *)
(* sequences of characters; paths are sequences of components relative to  *)
(* the project folder; an optional value is a sequence of length 0 or 1.   *)
(***************************************************************************)
EXTENDS Integers, Sequences, FiniteSets, TLC

VARIABLES
    projectFolder,  \* env.NAO_DEFAULT_PROJECT_PATH ("" when unset)
    rules,          \* <root>/RULES.md: [state, content]
    repos,          \* <root>/repos: "absent", "dir" or "noread"
    repoEntries,    \* enumeration of <root>/repos
    dbtIndex,       \* names D with <root>/dbt-index/D/manifest.md
    databases,      \* <root>/databases: "absent", "dir" or "noread"
    dbEntries,      \* enumeration of <root>/databases, with children
    pc,             \* position of the running call
    op,             \* the function called
    result,         \* how the call ended
    fsCalls,        \* filesystem calls made by the call so far
    readFailed,     \* a filesystem read of the call has thrown
    entries,        \* getRepositories: const entries
    i,              \* getRepositories: position of the for loop
    repositories,   \* getRepositories: const repositories
    cur,            \* getRepositories: hasDbtProject, dbtProjectPath
    observed,       \* outcome of each existence check when it ran
    interference    \* environment steps taken during the call

vars == <<projectFolder, rules, repos, repoEntries, dbtIndex, databases,
          dbEntries, pc, op, result, fsCalls, readFailed, entries, i,
          repositories, cur, observed, interference>>

fsVars == <<rules, repos, repoEntries, dbtIndex, databases, dbEntries>>
callVars == <<pc, op, result, fsCalls, readFailed, entries, i,
              repositories, cur, observed>>

----------------------------------------------------------------------------
(* Bounds *)

MaxNodes == 4          \* files and directories under the project folder
MaxInterference == 2   \* environment steps interleaved with one call

----------------------------------------------------------------------------
(* Values *)

Undefined == <<>>
Some(v) == <<v>>

ProjectFolders == {"", "/project"}

RepoNames == {"foo", "bar", "docs"}

RulesContents == {"", "be kind"}

TypePrefix == <<"t", "y", "p", "e", "=">>
DatabasePrefix == <<"d", "a", "t", "a", "b", "a", "s", "e", "=">>

TypeNames ==
    { TypePrefix \o <<"p", "g">>,
      TypePrefix \o <<"m", "y">>,
      TypePrefix,
      <<"k", "i", "n", "d", "=", "p", "g">> }

DatabaseNames ==
    { DatabasePrefix \o <<"a">>,
      DatabasePrefix \o <<"b">>,
      DatabasePrefix,
      <<"d", "a", "t", "a", "b", "a", "s", "e", "s", "=", "a">> }

----------------------------------------------------------------------------
(* Strings and paths *)

StartsWith(s, prefix) ==
    /\ Len(s) >= Len(prefix)
    /\ SubSeq(s, 1, Len(prefix)) = prefix

Slice(s, n) == SubSeq(s, n + 1, Len(s))

TruthyAlways(s) == TRUE

Truthy(s) == s # <<>>

RECURSIVE Normalize(_, _)
Normalize(parts, acc) ==
    IF parts = <<>> THEN acc
    ELSE IF Head(parts) = ".." /\ acc # <<>>
         THEN Normalize(Tail(parts), SubSeq(acc, 1, Len(acc) - 1))
         ELSE Normalize(Tail(parts), Append(acc, Head(parts)))

Join(parts) == Normalize(parts, <<>>)

ReposPath == Join(<<"repos">>)
DatabasesPath == Join(<<"databases">>)
RulesPath == Join(<<"RULES.md">>)

RootDbtProject(name) == Join(ReposPath \o <<name, "dbt_project.yml">>)
SubDbtProject(name) == Join(ReposPath \o <<name, "dbt", "dbt_project.yml">>)
IndexPathUnderRepos(name) ==
    Join(ReposPath \o <<"dbt-index", name, "manifest.md">>)

IndexPath(name) == Join(ReposPath \o <<"..", "dbt-index", name, "manifest.md">>)

RootProjectPathNested(name) == <<"repos", name, "dbt">>

RootProjectPath(name) == <<"repos", name>>
SubProjectPath(name) == <<"repos", name, "dbt">>

----------------------------------------------------------------------------
(* The filesystem under the project folder *)

RepoDir(name) ==
    \E k \in 1..Len(repoEntries) :
        repoEntries[k].name = name /\ repoEntries[k].isDir

RepoEntryOf(name) ==
    repoEntries[CHOOSE k \in 1..Len(repoEntries) : repoEntries[k].name = name]

ExistsSync(path) ==
    IF path = RulesPath THEN rules.state # "absent"
    ELSE IF path = ReposPath THEN repos # "absent"
    ELSE IF path = DatabasesPath THEN databases # "absent"
    ELSE IF Len(path) = 3 /\ path[1] = "repos" /\ path[3] = "dbt_project.yml"
         THEN RepoDir(path[2]) /\ RepoEntryOf(path[2]).rootManifest
    ELSE IF Len(path) = 4 /\ path[1] = "repos" /\ path[3] = "dbt"
                          /\ path[4] = "dbt_project.yml"
         THEN RepoDir(path[2]) /\ RepoEntryOf(path[2]).subManifest
    ELSE IF Len(path) = 3 /\ path[1] = "dbt-index" /\ path[3] = "manifest.md"
         THEN path[2] \in dbtIndex
    ELSE FALSE

Dirent(e) == [name |-> e.name, isDir |-> e.isDir]

Dirents(list) == [k \in 1..Len(list) |-> Dirent(list[k])]

RECURSIVE SumLen(_)
SumLen(list) ==
    IF list = <<>> THEN 0
    ELSE Len(Head(list).children) + SumLen(Tail(list))

RECURSIVE Manifests(_)
Manifests(list) ==
    IF list = <<>> THEN 0
    ELSE (IF Head(list).rootManifest THEN 1 ELSE 0)
         + (IF Head(list).subManifest THEN 1 ELSE 0)
         + Manifests(Tail(list))

Nodes ==
    (IF rules.state # "absent" THEN 1 ELSE 0)
    + (IF repos # "absent" THEN 1 ELSE 0)
    + Len(repoEntries) + Manifests(repoEntries)
    + Cardinality(dbtIndex)
    + (IF databases # "absent" THEN 1 ELSE 0)
    + Len(dbEntries) + SumLen(dbEntries)

Names(list) == {list[k].name : k \in 1..Len(list)}

RemoveAt(list, k) == SubSeq(list, 1, k - 1) \o SubSeq(list, k + 1, Len(list))

----------------------------------------------------------------------------
(* The environment: other processes changing the project folder *)

EnvSetRules(state, content) ==
    /\ [state |-> state, content |-> content] # rules
    /\ (state = "absent") = (content = "")
    /\ rules.state = "absent" => Nodes < MaxNodes
    /\ rules' = [state |-> state, content |-> content]
    /\ UNCHANGED <<repos, repoEntries, dbtIndex, databases, dbEntries>>

EnvSetRepos(state) ==
    /\ state # repos
    /\ repos = "absent" => Nodes < MaxNodes
    /\ repos' = state
    /\ repoEntries' = IF state = "absent" THEN <<>> ELSE repoEntries
    /\ UNCHANGED <<rules, dbtIndex, databases, dbEntries>>

EnvAddRepoEntry(name, isDir) ==
    /\ repos # "absent"
    /\ name \notin Names(repoEntries)
    /\ Nodes < MaxNodes
    /\ repoEntries' = Append(repoEntries,
            [name |-> name, isDir |-> isDir,
             rootManifest |-> FALSE, subManifest |-> FALSE])
    /\ UNCHANGED <<rules, repos, dbtIndex, databases, dbEntries>>

EnvRemoveRepoEntry(k) ==
    /\ k \in 1..Len(repoEntries)
    /\ repoEntries' = RemoveAt(repoEntries, k)
    /\ UNCHANGED <<rules, repos, dbtIndex, databases, dbEntries>>

EnvToggleRootManifest(k) ==
    /\ k \in 1..Len(repoEntries)
    /\ repoEntries[k].isDir
    /\ ~repoEntries[k].rootManifest => Nodes < MaxNodes
    /\ repoEntries' = [repoEntries EXCEPT ![k].rootManifest = ~@]
    /\ UNCHANGED <<rules, repos, dbtIndex, databases, dbEntries>>

EnvToggleSubManifest(k) ==
    /\ k \in 1..Len(repoEntries)
    /\ repoEntries[k].isDir
    /\ ~repoEntries[k].subManifest => Nodes < MaxNodes
    /\ repoEntries' = [repoEntries EXCEPT ![k].subManifest = ~@]
    /\ UNCHANGED <<rules, repos, dbtIndex, databases, dbEntries>>

EnvToggleIndex(name) ==
    /\ name \notin dbtIndex => Nodes < MaxNodes
    /\ dbtIndex' = IF name \in dbtIndex THEN dbtIndex \ {name}
                                        ELSE dbtIndex \cup {name}
    /\ UNCHANGED <<rules, repos, repoEntries, databases, dbEntries>>

EnvSetDatabases(state) ==
    /\ state # databases
    /\ databases = "absent" => Nodes < MaxNodes
    /\ databases' = state
    /\ dbEntries' = IF state = "absent" THEN <<>> ELSE dbEntries
    /\ UNCHANGED <<rules, repos, repoEntries, dbtIndex>>

EnvAddTypeEntry(name, isDir) ==
    /\ databases # "absent"
    /\ name \notin Names(dbEntries)
    /\ Nodes < MaxNodes
    /\ dbEntries' = Append(dbEntries,
            [name |-> name, isDir |-> isDir, readable |-> TRUE,
             children |-> <<>>])
    /\ UNCHANGED <<rules, repos, repoEntries, dbtIndex, databases>>

EnvRemoveTypeEntry(k) ==
    /\ k \in 1..Len(dbEntries)
    /\ dbEntries' = RemoveAt(dbEntries, k)
    /\ UNCHANGED <<rules, repos, repoEntries, dbtIndex, databases>>

EnvChmodTypeEntry(k) ==
    /\ k \in 1..Len(dbEntries)
    /\ dbEntries[k].isDir
    /\ dbEntries' = [dbEntries EXCEPT ![k].readable = ~@]
    /\ UNCHANGED <<rules, repos, repoEntries, dbtIndex, databases>>

EnvAddDatabaseEntry(k, name, isDir) ==
    /\ k \in 1..Len(dbEntries)
    /\ dbEntries[k].isDir
    /\ name \notin Names(dbEntries[k].children)
    /\ Nodes < MaxNodes
    /\ dbEntries' = [dbEntries EXCEPT ![k].children =
            Append(@, [name |-> name, isDir |-> isDir])]
    /\ UNCHANGED <<rules, repos, repoEntries, dbtIndex, databases>>

EnvRemoveDatabaseEntry(k, j) ==
    /\ k \in 1..Len(dbEntries)
    /\ j \in 1..Len(dbEntries[k].children)
    /\ dbEntries' = [dbEntries EXCEPT ![k].children = RemoveAt(@, j)]
    /\ UNCHANGED <<rules, repos, repoEntries, dbtIndex, databases>>

----------------------------------------------------------------------------
(* How a call ends *)

NoResult == [outcome |-> "none", isNull |-> FALSE, list |-> <<>>, text |-> ""]

ReturnNull == [outcome |-> "return", isNull |-> TRUE, list |-> <<>>, text |-> ""]

ReturnList(list) ==
    [outcome |-> "return", isNull |-> FALSE, list |-> list, text |-> ""]

ReturnText(text) ==
    [outcome |-> "return", isNull |-> FALSE, list |-> <<>>, text |-> text]

\* an exception leaving the try block; list is what was accumulated so far
Throw(list) ==
    [outcome |-> "throw", isNull |-> FALSE, list |-> list, text |-> ""]

TryCatchPartial(body) ==
    IF body.outcome = "throw"
    THEN (IF Len(body.list) > 0 THEN ReturnList(body.list) ELSE ReturnNull)
    ELSE body

\* try { body } catch (error) { console.error(...); return null; }
TryCatch(body) ==
    IF body.outcome = "throw" THEN ReturnNull ELSE body

CollapseKeepsEmpty(list) == ReturnList(list)

\* return list.length > 0 ? list : null
Collapse(list) ==
    IF Len(list) > 0 THEN ReturnList(list) ELSE ReturnNull

IsSetUnlessNull(folder) == TRUE

\* if (!projectFolder)
IsSet(folder) == folder # ""

WhenAbsentEmpty == ReturnList(<<>>)

\* if (!existsSync(...)) { return null; }
WhenAbsent == ReturnNull

SkippedNever(entry) == FALSE

\* if (!entry.isDirectory()) { continue; }
Skipped(entry) == ~entry.isDir

NoCur == [hasDbtProject |-> FALSE, dbtProjectPath |-> Undefined]

----------------------------------------------------------------------------
(* getUserRules *)

ReadFileSync ==
    IF rules.state = "file" THEN ReturnText(rules.content) ELSE Throw(<<>>)

GetUserRules ==
    IF ~IsSet(projectFolder)
    THEN [result |-> ReturnNull, fsCalls |-> 0, readFailed |-> FALSE]
    ELSE IF ~ExistsSync(RulesPath)
    THEN [result |-> WhenAbsent, fsCalls |-> 1, readFailed |-> FALSE]
    ELSE [result |-> TryCatch(ReadFileSync), fsCalls |-> 2,
          readFailed |-> ReadFileSync.outcome = "throw"]

CallGetUserRules ==
    /\ pc = "idle"
    /\ pc' = "done"
    /\ op' = "getUserRules"
    /\ result' = GetUserRules.result
    /\ fsCalls' = GetUserRules.fsCalls
    /\ readFailed' = GetUserRules.readFailed
    /\ UNCHANGED <<projectFolder, fsVars, entries, i, repositories, cur,
                   observed, interference>>

----------------------------------------------------------------------------
(* getConnections *)

Connection(type, database) == [type |-> type, database |-> database]

\* for (const dbEntry of dbEntries) { ... connections.push({ type, database }) }
RECURSIVE DatabasesOf(_, _, _)
DatabasesOf(type, dbs, connections) ==
    IF dbs = <<>> THEN connections
    ELSE LET dbEntry == Head(dbs)
             database == Slice(dbEntry.name, Len(DatabasePrefix))
         IN  DatabasesOf(type, Tail(dbs),
                IF /\ dbEntry.isDir
                   /\ StartsWith(dbEntry.name, DatabasePrefix)
                   /\ Truthy(database)
                THEN Append(connections, Connection(type, database))
                ELSE connections)

\* readdirSync(join(databasesPath, entry.name), { withFileTypes: true })
ReaddirSyncType(name) ==
    LET found == {k \in 1..Len(dbEntries) :
                     dbEntries[k].name = name /\ dbEntries[k].isDir
                     /\ dbEntries[k].readable}
    IN  IF found = {}
        THEN [ok |-> FALSE, entries |-> <<>>]
        ELSE [ok |-> TRUE,
              entries |-> Dirents(dbEntries[CHOOSE k \in found : TRUE].children)]

\* for (const entry of entries) { ... }
RECURSIVE ScanTypes(_, _, _)
ScanTypes(list, connections, reads) ==
    IF list = <<>>
    THEN [threw |-> FALSE, connections |-> connections, reads |-> reads]
    ELSE LET entry == Head(list)
             type == Slice(entry.name, Len(TypePrefix))
         IN  IF /\ entry.isDir
                /\ StartsWith(entry.name, TypePrefix)
                /\ Truthy(type)
             THEN LET dbs == ReaddirSyncType(entry.name)
                  IN  IF dbs.ok
                      THEN ScanTypes(Tail(list),
                              DatabasesOf(type, dbs.entries, connections),
                              reads + 1)
                      ELSE [threw |-> TRUE, connections |-> connections,
                            reads |-> reads + 1]
             ELSE ScanTypes(Tail(list), connections, reads)

GetConnections ==
    IF ~IsSet(projectFolder)
    THEN [result |-> ReturnNull, fsCalls |-> 0, readFailed |-> FALSE]
    ELSE IF ~ExistsSync(DatabasesPath)
    THEN [result |-> WhenAbsent, fsCalls |-> 1, readFailed |-> FALSE]
    ELSE IF databases # "dir"
    THEN [result |-> TryCatch(Throw(<<>>)), fsCalls |-> 2,
          readFailed |-> TRUE]
    ELSE LET scan == ScanTypes(Dirents(dbEntries), <<>>, 2)
         IN  [result |-> TryCatch(IF scan.threw
                                  THEN Throw(scan.connections)
                                  ELSE Collapse(scan.connections)),
              fsCalls |-> scan.reads,
              readFailed |-> scan.threw]

CallGetConnections ==
    /\ pc = "idle"
    /\ pc' = "done"
    /\ op' = "getConnections"
    /\ result' = GetConnections.result
    /\ fsCalls' = GetConnections.fsCalls
    /\ readFailed' = GetConnections.readFailed
    /\ UNCHANGED <<projectFolder, fsVars, entries, i, repositories, cur,
                   observed, interference>>

----------------------------------------------------------------------------
(* getRepositories, one step per filesystem call *)

Repository(name, hasDbtProject, dbtProjectPath, indexed) ==
    [name |-> name, hasDbtProject |-> hasDbtProject,
     dbtProjectPath |-> dbtProjectPath, indexed |-> indexed]

\* let indexed = false;
InitialIndexed == Some(FALSE)

IndexedOfUnchecked(name) == Some(FALSE)

\* indexed = existsSync(indexPath);
IndexedOf(name) == Some(ExistsSync(IndexPath(name)))

YesNo(b) == IF b THEN "yes" ELSE "no"

Observation(name, root, sub, index) ==
    [name |-> name, root |-> root, sub |-> sub, index |-> index]

\* if (!projectFolder) return null; if (!existsSync(reposPath)) return null;
GR_Call ==
    /\ pc = "idle"
    /\ op' = "getRepositories"
    /\ IF ~IsSet(projectFolder)
       THEN /\ pc' = "done"
            /\ result' = ReturnNull
            /\ fsCalls' = 0
       ELSE /\ fsCalls' = 1
            /\ IF ~ExistsSync(ReposPath)
               THEN pc' = "done" /\ result' = WhenAbsent
               ELSE pc' = "readdir" /\ result' = NoResult
    /\ UNCHANGED <<projectFolder, fsVars, readFailed, entries, i,
                   repositories, cur, observed, interference>>

\* const entries = readdirSync(reposPath, { withFileTypes: true });
GR_Readdir ==
    /\ pc = "readdir"
    /\ fsCalls' = fsCalls + 1
    /\ IF repos = "dir"
       THEN /\ entries' = Dirents(repoEntries)
            /\ i' = 1
            /\ pc' = "loop"
            /\ UNCHANGED <<result, readFailed>>
       ELSE /\ readFailed' = TRUE
            /\ result' = TryCatch(Throw(repositories))
            /\ pc' = "done"
            /\ UNCHANGED <<entries, i>>
    /\ UNCHANGED <<projectFolder, fsVars, op, repositories, cur, observed,
                   interference>>

\* for (const entry of entries) { if (!entry.isDirectory()) continue; ... }
\* return repositories.length > 0 ? repositories : null;
GR_Loop ==
    /\ pc = "loop"
    /\ IF i > Len(entries)
       THEN /\ result' = TryCatch(Collapse(repositories))
            /\ pc' = "done"
            /\ i' = i
       ELSE IF Skipped(entries[i])
       THEN /\ i' = i + 1
            /\ UNCHANGED <<pc, result>>
       ELSE /\ pc' = "root"
            /\ UNCHANGED <<i, result>>
    /\ UNCHANGED <<projectFolder, fsVars, op, fsCalls, readFailed, entries,
                   repositories, cur, observed, interference>>

\* if (existsSync(rootDbtProject)) { ... }
GR_CheckRoot ==
    /\ pc = "root"
    /\ fsCalls' = fsCalls + 1
    /\ LET name == entries[i].name
           found == ExistsSync(RootDbtProject(name))
       IN  /\ observed' = Append(observed,
                Observation(name, YesNo(found), "skipped", "skipped"))
           /\ IF found
              THEN /\ cur' = [hasDbtProject |-> TRUE,
                              dbtProjectPath |-> Some(RootProjectPath(name))]
                   /\ pc' = "index"
              ELSE /\ cur' = NoCur
                   /\ pc' = "sub"
    /\ UNCHANGED <<projectFolder, fsVars, op, result, readFailed, entries, i,
                   repositories, interference>>

\* else if (existsSync(subDbtProject)) { ... }
\* when neither exists: let indexed = false; repositories.push(...)
GR_CheckSub ==
    /\ pc = "sub"
    /\ fsCalls' = fsCalls + 1
    /\ LET name == entries[i].name
           found == ExistsSync(SubDbtProject(name))
       IN  /\ observed' = [observed EXCEPT ![Len(observed)].sub = YesNo(found)]
           /\ IF found
              THEN /\ cur' = [hasDbtProject |-> TRUE,
                              dbtProjectPath |-> Some(SubProjectPath(name))]
                   /\ pc' = "index"
                   /\ UNCHANGED <<repositories, i>>
              ELSE /\ repositories' = Append(repositories,
                        Repository(name, cur.hasDbtProject,
                                   cur.dbtProjectPath, InitialIndexed))
                   /\ cur' = NoCur
                   /\ i' = i + 1
                   /\ pc' = "loop"
    /\ UNCHANGED <<projectFolder, fsVars, op, result, readFailed, entries,
                   interference>>

\* if (hasDbtProject) { indexed = existsSync(indexPath); }
\* repositories.push({ name: entry.name, hasDbtProject, dbtProjectPath, indexed });
GR_CheckIndex ==
    /\ pc = "index"
    /\ fsCalls' = fsCalls + 1
    /\ LET name == entries[i].name
       IN  /\ observed' = [observed EXCEPT ![Len(observed)].index =
                              YesNo(ExistsSync(IndexPath(name)))]
           /\ repositories' = Append(repositories,
                Repository(name, cur.hasDbtProject, cur.dbtProjectPath,
                           IndexedOf(name)))
    /\ cur' = NoCur
    /\ i' = i + 1
    /\ pc' = "loop"
    /\ UNCHANGED <<projectFolder, fsVars, op, result, readFailed, entries,
                   interference>>

\* the caller takes the returned value; the next call starts from scratch
Reset ==
    /\ pc = "done"
    /\ pc' = "idle"
    /\ op' = "none"
    /\ result' = NoResult
    /\ fsCalls' = 0
    /\ readFailed' = FALSE
    /\ entries' = <<>>
    /\ i' = 0
    /\ repositories' = <<>>
    /\ cur' = NoCur
    /\ observed' = <<>>
    /\ interference' = 0
    /\ UNCHANGED <<projectFolder, fsVars>>

----------------------------------------------------------------------------
(* Specifications *)

Init ==
    /\ projectFolder \in ProjectFolders
    /\ rules = [state |-> "absent", content |-> ""]
    /\ repos = "absent"
    /\ repoEntries = <<>>
    /\ dbtIndex = {}
    /\ databases = "absent"
    /\ dbEntries = <<>>
    /\ pc = "idle"
    /\ op = "none"
    /\ result = NoResult
    /\ fsCalls = 0
    /\ readFailed = FALSE
    /\ entries = <<>>
    /\ i = 0
    /\ repositories = <<>>
    /\ cur = NoCur
    /\ observed = <<>>
    /\ interference = 0

\* the project folder changes while no call is running
Quiet(change) ==
    /\ pc = "idle"
    /\ change
    /\ UNCHANGED <<projectFolder, callVars, interference>>

\* the project folder changes between two filesystem calls of getRepositories
Racing(change) ==
    /\ pc \in {"readdir", "loop", "root", "sub", "index"}
    /\ interference < MaxInterference
    /\ interference' = interference + 1
    /\ change
    /\ UNCHANGED <<projectFolder, callVars>>

States == {"absent", "dir", "noread"}
RulesStates == {"absent", "file", "noread"}

Program ==
    \/ CallGetUserRules
    \/ CallGetConnections
    \/ GR_Call
    \/ GR_Readdir
    \/ GR_Loop
    \/ GR_CheckRoot
    \/ GR_CheckSub
    \/ GR_CheckIndex
    \/ Reset

Next ==
    \/ Program
    \/ \E s \in RulesStates, c \in RulesContents : Quiet(EnvSetRules(s, c))
    \/ \E s \in States : Quiet(EnvSetRepos(s))
    \/ \E n \in RepoNames, d \in BOOLEAN : Quiet(EnvAddRepoEntry(n, d))
    \/ \E k \in 1..MaxNodes : Quiet(EnvRemoveRepoEntry(k))
    \/ \E k \in 1..MaxNodes : Quiet(EnvToggleRootManifest(k))
    \/ \E k \in 1..MaxNodes : Quiet(EnvToggleSubManifest(k))
    \/ \E n \in RepoNames : Quiet(EnvToggleIndex(n))
    \/ \E s \in States : Quiet(EnvSetDatabases(s))
    \/ \E n \in TypeNames, d \in BOOLEAN : Quiet(EnvAddTypeEntry(n, d))
    \/ \E k \in 1..MaxNodes : Quiet(EnvRemoveTypeEntry(k))
    \/ \E k \in 1..MaxNodes : Quiet(EnvChmodTypeEntry(k))
    \/ \E k \in 1..MaxNodes, n \in DatabaseNames, d \in BOOLEAN :
            Quiet(EnvAddDatabaseEntry(k, n, d))
    \/ \E k \in 1..MaxNodes, j \in 1..MaxNodes :
            Quiet(EnvRemoveDatabaseEntry(k, j))

Spec == Init /\ [][Next]_vars

NextConc ==
    \/ GR_Call
    \/ GR_Readdir
    \/ GR_Loop
    \/ GR_CheckRoot
    \/ GR_CheckSub
    \/ GR_CheckIndex
    \/ Reset
    \/ \E s \in States : Quiet(EnvSetRepos(s))
    \/ \E n \in RepoNames, d \in BOOLEAN : Quiet(EnvAddRepoEntry(n, d))
    \/ \E k \in 1..MaxNodes : Quiet(EnvRemoveRepoEntry(k))
    \/ \E k \in 1..MaxNodes : Quiet(EnvToggleRootManifest(k))
    \/ \E k \in 1..MaxNodes : Quiet(EnvToggleSubManifest(k))
    \/ \E n \in RepoNames : Quiet(EnvToggleIndex(n))
    \/ \E s \in States : Racing(EnvSetRepos(s))
    \/ \E n \in RepoNames, d \in BOOLEAN : Racing(EnvAddRepoEntry(n, d))
    \/ \E k \in 1..MaxNodes : Racing(EnvRemoveRepoEntry(k))
    \/ \E k \in 1..MaxNodes : Racing(EnvToggleRootManifest(k))
    \/ \E k \in 1..MaxNodes : Racing(EnvToggleSubManifest(k))
    \/ \E n \in RepoNames : Racing(EnvToggleIndex(n))

SpecConc == Init /\ [][NextConc]_vars

----------------------------------------------------------------------------
(* Properties *)

Returned(f) == pc = "done" /\ op = f

ReturnedNull == result.outcome = "return" /\ result.isNull

ReturnedList == result.outcome = "return" /\ ~result.isNull

Records == {result.list[k] : k \in 1..Len(result.list)}

IsDirEntry(e) == e.isDir

\* the text after a literal prefix, when the name has the prefix
HasValue(name, prefix) ==
    /\ Len(name) > Len(prefix)
    /\ \A c \in 1..Len(prefix) : name[c] = prefix[c]

ValueOf(name, prefix) ==
    [c \in 1..(Len(name) - Len(prefix)) |-> name[c + Len(prefix)]]

ValidType(e) == e.isDir /\ HasValue(e.name, TypePrefix)
ValidDatabase(e) == e.isDir /\ HasValue(e.name, DatabasePrefix)

PairsOf(e) ==
    LET kept == SelectSeq(e.children, ValidDatabase)
    IN  [j \in 1..Len(kept) |->
            [type |-> ValueOf(e.name, TypePrefix),
             database |-> ValueOf(kept[j].name, DatabasePrefix)]]

RECURSIVE PairsFrom(_)
PairsFrom(k) ==
    IF k > Len(dbEntries) THEN <<>>
    ELSE (IF ValidType(dbEntries[k]) THEN PairsOf(dbEntries[k]) ELSE <<>>)
         \o PairsFrom(k + 1)

\* C1: with the project root unset, each of the three functions returns
\* null whatever the filesystem holds, and makes no filesystem call.
C1_UnsetRootReturnsNull ==
    (pc = "done" /\ projectFolder = "") => (ReturnedNull /\ fsCalls = 0)

C1_Witness ==
    /\ Returned("getRepositories")
    /\ projectFolder = ""
    /\ repos = "dir"
    /\ \E k \in 1..Len(repoEntries) : repoEntries[k].isDir
    /\ ReturnedNull

\* C2: getRepositories and getConnections return null or a list with at
\* least one element, never an empty list; a repos/ directory without
\* directory entries and a databases/ directory without a valid
\* (type, database) pair both give null.
C2_NullOrNonEmpty ==
    /\ (Returned("getRepositories") \/ Returned("getConnections")) =>
            (ReturnedNull \/ (ReturnedList /\ Len(result.list) >= 1))
    /\ (Returned("getRepositories") /\ SelectSeq(repoEntries, IsDirEntry) = <<>>)
            => ReturnedNull
    /\ (Returned("getConnections") /\ PairsFrom(1) = <<>>) => ReturnedNull

C2_Witness ==
    /\ Returned("getRepositories")
    /\ projectFolder # ""
    /\ repos = "dir"
    /\ repoEntries # <<>>
    /\ SelectSeq(repoEntries, IsDirEntry) = <<>>
    /\ ReturnedNull

\* C3: in a list returned by getRepositories every directory D of repos/
\* has a record; with repos/D/dbt_project.yml it has hasDbtProject and
\* dbtProjectPath "repos/D" (also when the nested manifest exists too),
\* otherwise with repos/D/dbt/dbt_project.yml it has hasDbtProject and
\* dbtProjectPath "repos/D/dbt", otherwise hasDbtProject is false and
\* dbtProjectPath is undefined; dbtProjectPath is set exactly when
\* hasDbtProject is true.
C3_ManifestLocation ==
    (Returned("getRepositories") /\ ReturnedList) =>
        /\ \A k \in 1..Len(repoEntries) :
              LET e == repoEntries[k] IN
              e.isDir => \E r \in Records :
                 /\ r.name = e.name
                 /\ IF e.rootManifest
                    THEN /\ r.hasDbtProject
                         /\ r.dbtProjectPath = << <<"repos", e.name>> >>
                    ELSE IF e.subManifest
                    THEN /\ r.hasDbtProject
                         /\ r.dbtProjectPath = << <<"repos", e.name, "dbt">> >>
                    ELSE /\ ~r.hasDbtProject
                         /\ r.dbtProjectPath = <<>>
        /\ \A r \in Records : (r.dbtProjectPath # <<>>) = r.hasDbtProject

C3_Witness ==
    /\ Returned("getRepositories")
    /\ ReturnedList
    /\ \E k \in 1..Len(repoEntries) :
          /\ repoEntries[k].rootManifest
          /\ repoEntries[k].subManifest
          /\ \E r \in Records :
                /\ r.name = repoEntries[k].name
                /\ r.dbtProjectPath = << <<"repos", r.name>> >>

\* C4: in a list returned by getRepositories a record with hasDbtProject
\* has indexed true exactly when <root>/dbt-index/D/manifest.md exists,
\* D being the directory name, wherever the project manifest was found.
C4_IndexedIffIndexManifest ==
    (Returned("getRepositories") /\ ReturnedList) =>
        \A r \in Records :
            r.hasDbtProject => r.indexed = <<r.name \in dbtIndex>>

C4_Witness ==
    /\ Returned("getRepositories")
    /\ ReturnedList
    /\ \E r \in Records :
          /\ r.dbtProjectPath = << <<"repos", r.name, "dbt">> >>
          /\ r.name \in dbtIndex
          /\ r.indexed = <<TRUE>>

\* C5: in a list returned by getRepositories a record without
\* hasDbtProject has no indexed value (undefined, not false).
C5_NonProjectIndexedAbsent ==
    (Returned("getRepositories") /\ ReturnedList) =>
        \A r \in Records : ~r.hasDbtProject => r.indexed = <<>>

\* a filesystem read of the finished call fails in this filesystem
ReadFails ==
    /\ projectFolder # ""
    /\ \/ op = "getUserRules" /\ rules.state = "noread"
       \/ op = "getRepositories" /\ repos = "noread"
       \/ op = "getConnections" /\ databases = "noread"
       \/ /\ op = "getConnections"
          /\ databases = "dir"
          /\ \E k \in 1..Len(dbEntries) :
                ValidType(dbEntries[k]) /\ ~dbEntries[k].readable

\* C6: no call ends by throwing; a call in which a filesystem read fails
\* returns null, also when connections of earlier type directories had
\* been accumulated before the failure.
C6_FailureYieldsNull ==
    pc = "done" =>
        /\ result.outcome = "return"
        /\ (ReadFails \/ readFailed) => ReturnedNull

C6_Witness ==
    /\ Returned("getConnections")
    /\ projectFolder # ""
    /\ databases = "dir"
    /\ \E k \in 1..Len(dbEntries) :
          /\ ValidType(dbEntries[k])
          /\ ~dbEntries[k].readable
          /\ \E j \in 1..(k - 1) :
                /\ ValidType(dbEntries[j])
                /\ dbEntries[j].readable
                /\ PairsOf(dbEntries[j]) # <<>>
    /\ ReturnedNull

C8_AbsentTargetReturnsNull ==
    /\ (Returned("getRepositories") /\ projectFolder # "" /\ repos = "absent")
            => ReturnedNull
    /\ (Returned("getConnections") /\ projectFolder # ""
            /\ databases = "absent") => ReturnedNull
    /\ (Returned("getUserRules") /\ projectFolder # ""
            /\ rules.state = "absent") => ReturnedNull

C8_Witness ==
    /\ Returned("getRepositories")
    /\ projectFolder # ""
    /\ repos = "absent"
    /\ dbtIndex # {}
    /\ databases = "dir"
    /\ ReturnedNull

\* C9: the names of a list returned by getRepositories are the names of
\* the directory entries of repos/, in enumeration order, files left out
\* and no name twice.
C9_OneRecordPerDirectory ==
    (Returned("getRepositories") /\ ReturnedList) =>
        LET dirs == SelectSeq(repoEntries, IsDirEntry)
        IN  /\ Len(result.list) = Len(dirs)
            /\ \A k \in 1..Len(dirs) : result.list[k].name = dirs[k].name
            /\ \A a, b \in 1..Len(result.list) :
                  a # b => result.list[a].name # result.list[b].name

C9_Witness ==
    /\ Returned("getRepositories")
    /\ ReturnedList
    /\ Len(result.list) = 2
    /\ Len(repoEntries) = 3
    /\ ~repoEntries[2].isDir

\* C10: when other processes change repos/ and dbt-index/ between the
\* filesystem calls of getRepositories, the call does not throw; once
\* repos/ was enumerated it returns one record for each directory seen by
\* the enumeration, in that order, and each record's hasDbtProject,
\* dbtProjectPath and indexed are the outcomes the existence checks had
\* when they ran.
C10_RecordsAreCheckTimeOutcomes ==
    Returned("getRepositories") =>
        /\ result.outcome = "return"
        /\ i > 0 =>
            LET dirs == SelectSeq(entries, IsDirEntry)
            IN  IF dirs = <<>> THEN ReturnedNull
                ELSE /\ ReturnedList
                     /\ Len(result.list) = Len(dirs)
                     /\ Len(observed) = Len(dirs)
                     /\ \A k \in 1..Len(dirs) :
                          LET r == result.list[k]
                              o == observed[k]
                          IN  /\ r.name = dirs[k].name
                              /\ o.name = dirs[k].name
                              /\ r.hasDbtProject =
                                    (o.root = "yes" \/ o.sub = "yes")
                              /\ r.dbtProjectPath =
                                    IF o.root = "yes"
                                    THEN << <<"repos", r.name>> >>
                                    ELSE IF o.sub = "yes"
                                    THEN << <<"repos", r.name, "dbt">> >>
                                    ELSE <<>>
                              /\ r.hasDbtProject =>
                                    r.indexed = <<o.index = "yes">>

\* a returned record says hasDbtProject and indexed for a directory that
\* was removed from repos/ while the call ran, its index file removed too
C10_Witness ==
    /\ Returned("getRepositories")
    /\ ReturnedList
    /\ interference > 0
    /\ \E r \in Records :
          /\ r.hasDbtProject
          /\ r.indexed = <<TRUE>>
          /\ r.name \notin Names(repoEntries)
          /\ r.name \notin dbtIndex

====
